---- MODULE Spec2Model ----
(***************************************************************************)
(* A model of gpt_repository_loader.py: the ignore matcher, the tree       *)
(* renderer, the repository concatenator, the output splitter and the      *)
(* command-line driver that strings them together.                         *)
(*                                                                         *)
(* Strings are sequences of one-character strings, so that substring       *)
(* search, prefix tests, stripping and glob matching are computed and not  *)
(* assumed.  A line of a text file is a record: its leading characters     *)
(* (text), the number of further filler characters that follow them (pad;  *)
(* the filler holds no line end, and no hyphen where text is shorter than  *)
(* four characters) and its line end (eol).  The fields kind and rec of a  *)
(* line record where the line came from; no operator that models code      *)
(* reads them.  The console messages of -v are not part of the state.      *)
(***************************************************************************)
EXTENDS Integers, Sequences, FiniteSets, TLC

VARIABLES
    caller,             \* the operation under way: "ignore", "split", "tree", "main"
    pc,                 \* its position
    win32,              \* sys.platform == "win32"
    ignore_file,        \* the ignore file the driver found, or NoFile
    ignore_list,        \* the list get_ignore_list returned
    file_path,          \* argument of the last should_ignore call
    ignored,            \* what that call returned
    output_file,        \* the file at output_file_path, as lines on disk
    lines_read,         \* split_file: lines of the input read so far
    chunks,             \* split_file: the completed chunks
    chunk,              \* split_file: the chunk being accumulated
    chunk_size,         \* split_file: its accumulated length
    chunk_files,        \* the chunk files written, by index (from 0)
    fs,                 \* the files and directories under the repository root
    argv,               \* the flags given: x, s, l, p
    sink,               \* the output sink: "unopened", "open", "closed"
    events,             \* what the driver has done to the output file, in order
    todo,               \* process_repository: the files os.walk has yet to yield
    level,              \* tree: its arguments
    limit_to_directories,
    length_limit,
    yielded,            \* tree: how many lines the generator has yielded
    exhausted,          \* tree: the generator has returned
    files,              \* tree: its counters
    directories,
    stdout              \* what tree has printed

ignore_vars == <<ignore_file, ignore_list, file_path, ignored>>
split_vars  == <<lines_read, chunks, chunk, chunk_size, chunk_files>>
main_vars   == <<argv, sink, events, todo>>
tree_args   == <<level, limit_to_directories, length_limit>>
tree_vars   == <<yielded, exhausted, files, directories, stdout>>
vars == <<caller, pc, win32, fs, ignore_vars, output_file, split_vars, main_vars,
          tree_args, tree_vars>>

(***************************************************************************)
(* Program constants.                                                      *)
(***************************************************************************)
LARGE_FILE_SIZE == 1000000
SPLIT_SIZE == 4000000
DefaultLengthLimit == 1000  \* tree's default length_limit
ListingLevel == 3           \* the level the driver gives tree

(***************************************************************************)
(* Bounds of the model.                                                    *)
(***************************************************************************)
MaxIgnoreLines == 2     \* lines of the ignore file given to get_ignore_list
MaxLines == 4           \* lines of a file given directly to split_file
MaxFiles == 2           \* files under the repository root
MaxLimit == 3           \* length_limit of a direct call of tree

(***************************************************************************)
(* Strings.                                                                *)
(***************************************************************************)
\* the ignore file: whether one was found, and its lines
NoFile == [exists |-> FALSE, lines |-> <<>>]

IgnoreFile(lines) == [exists |-> TRUE, lines |-> lines]

UpperCase == <<"A","B","C","D","E","F","G","H","I","J","K","L","M",
               "N","O","P","Q","R","S","T","U","V","W","X","Y","Z">>
LowerCase == <<"a","b","c","d","e","f","g","h","i","j","k","l","m",
               "n","o","p","q","r","s","t","u","v","w","x","y","z">>

\* str.lower() on one character
lower(c) ==
    IF \E i \in 1..26 : UpperCase[i] = c
    THEN LowerCase[CHOOSE i \in 1..26 : UpperCase[i] = c]
    ELSE c

\* s.replace(a, b) for one-character a and b
replace(s, a, b) == [i \in 1..Len(s) |-> IF s[i] = a THEN b ELSE s[i]]

\* the characters str.strip() removes
Whitespace == {" ", "\t", "\n", "\r", "\f"}

RECURSIVE lstrip(_)
lstrip(s) ==
    IF s # <<>> /\ Head(s) \in Whitespace THEN lstrip(Tail(s)) ELSE s

RECURSIVE rstrip(_)
rstrip(s) ==
    IF s # <<>> /\ s[Len(s)] \in Whitespace
    THEN rstrip(SubSeq(s, 1, Len(s) - 1))
    ELSE s

\* str.strip()
strip(s) == rstrip(lstrip(s))

\* s.startswith(p)
startswith(s, p) == Len(s) >= Len(p) /\ SubSeq(s, 1, Len(p)) = p

\* p in s
contains(s, p) ==
    \E i \in 0..(Len(s) - Len(p)) : SubSeq(s, i + 1, i + Len(p)) = p

(***************************************************************************)
(* fnmatch.fnmatch(name, pat): both arguments go through                   *)
(* os.path.normcase, then the pattern is matched against the whole name.   *)
(* "*" matches any run of characters, "?" any one character, "[seq]" one   *)
(* character of seq and "[!seq]" one character not in seq; a "[" with no   *)
(* closing "]" is an ordinary character.  Character ranges ("a-z") are not *)
(* modelled: no pattern of the model has a hyphen inside brackets.         *)
(***************************************************************************)
normcase(s) ==
    IF win32 THEN [i \in 1..Len(s) |-> lower(IF s[i] = "/" THEN "\\" ELSE s[i])]
    ELSE s

\* index of the "]" closing a class whose "[" is pat[1]; 0 if there is none
bracket_end(pat) ==
    LET n  == Len(pat)
        j0 == 2
        j1 == IF j0 <= n /\ pat[j0] = "!" THEN j0 + 1 ELSE j0
        j2 == IF j1 <= n /\ pat[j1] = "]" THEN j1 + 1 ELSE j1
        rest == {j \in j2..n : pat[j] = "]"}
    IN  IF rest = {} THEN 0 ELSE CHOOSE j \in rest : \A k \in rest : j <= k

in_class(c, stuff) ==
    IF stuff[1] = "!"
    THEN \A i \in 2..Len(stuff) : stuff[i] # c
    ELSE \E i \in 1..Len(stuff) : stuff[i] = c

RECURSIVE fnmatchcase(_, _)
fnmatchcase(name, pat) ==
    IF pat = <<>> THEN name = <<>>
    ELSE LET c == Head(pat) IN
      CASE c = "*" ->
             \/ fnmatchcase(name, Tail(pat))
             \/ name # <<>> /\ fnmatchcase(Tail(name), pat)
        [] c = "?" ->
             name # <<>> /\ fnmatchcase(Tail(name), Tail(pat))
        [] c = "[" /\ bracket_end(pat) # 0 ->
             LET j == bracket_end(pat) IN
             /\ name # <<>>
             /\ in_class(Head(name), SubSeq(pat, 2, j - 1))
             /\ fnmatchcase(Tail(name), SubSeq(pat, j + 1, Len(pat)))
        [] OTHER ->
             name # <<>> /\ Head(name) = c /\ fnmatchcase(Tail(name), Tail(pat))

fnmatch(name, pat) == fnmatchcase(normcase(name), normcase(pat))

(***************************************************************************)
(* The ignore matcher.                                                     *)
(***************************************************************************)
\* get_ignore_list: one entry per line of the file, stripped
get_ignore_list(lines) ==
    [i \in 1..Len(lines) |->
        strip(IF win32 THEN replace(lines[i], "/", "\\") ELSE lines[i])]

\* the entries should_ignore keeps: not empty, not starting with "#"
is_pattern(pattern) == pattern # <<>> /\ ~startswith(pattern, <<"#">>)

\* faulty variants: one without the substring test, one without the glob
pattern_matches_NoSubstring(pattern, path) ==
    \/ pattern = path
    \/ fnmatch(path, pattern)

pattern_matches_NoGlob(pattern, path) ==
    \/ contains(path, pattern)
    \/ pattern = path

\* one pattern against one path
pattern_matches(pattern, path) ==
    \/ contains(path, pattern)
    \/ pattern = path
    \/ fnmatch(path, pattern)

\* faulty variant: the blank and the comment entries are not removed
should_ignore_KeepsAll(path, list) ==
    \E i \in 1..Len(list) : pattern_matches(list[i], path)

should_ignore(path, list) ==
    LET patterns == SelectSeq(list, is_pattern)
    IN  \E i \in 1..Len(patterns) : pattern_matches(patterns[i], path)

(***************************************************************************)
(* Text files.  On disk a line ends with "\n", "\r\n", "\r" or (the last   *)
(* line only) nothing.  open(path, 'r') reads with universal newlines:     *)
(* every line end comes back as "\n".  open(path, 'w') and 'a' write "\n"  *)
(* as os.linesep.                                                          *)
(***************************************************************************)
linesep == IF win32 THEN "\r\n" ELSE "\n"

\* what iterating a file opened with 'r' yields
read_text(file) ==
    [i \in 1..Len(file) |->
        [file[i] EXCEPT !.eol = IF file[i].eol = "" THEN "" ELSE "\n"]]

\* what writing these lines to a file opened with 'w' or 'a' stores
write_text(lines) ==
    [i \in 1..Len(lines) |->
        [lines[i] EXCEPT !.eol = IF lines[i].eol = "\n" THEN linesep ELSE lines[i].eol]]

\* len(line) of a line read in text mode
len(line) == Len(line.text) + line.pad + (IF line.eol = "" THEN 0 ELSE 1)

\* line.startswith(p), for p of hyphens: the filler holds no hyphen
line_startswith(line, p) == startswith(line.text, p)

RECURSIVE Concat(_)
Concat(seqs) == IF seqs = <<>> THEN <<>> ELSE Head(seqs) \o Concat(Tail(seqs))

(***************************************************************************)
(* The output splitter.                                                    *)
(***************************************************************************)
Dashes == <<"-","-","-","-">>

\* faulty variant: the line that triggers a flush is not put in the new chunk
split_step_DropsDelimiter(st, line) ==
    IF line_startswith(line, Dashes) /\ st.chunk_size > SPLIT_SIZE
    THEN [chunks |-> Append(st.chunks, st.chunk), chunk |-> <<>>, chunk_size |-> 0]
    ELSE [chunks |-> st.chunks,
          chunk |-> Append(st.chunk, line),
          chunk_size |-> st.chunk_size + len(line)]

\* one turn of the loop over the lines of the input: st is the record of
\* chunks, chunk and chunk_size
split_step(st, line) ==
    LET flush == line_startswith(line, Dashes) /\ st.chunk_size > SPLIT_SIZE
        chunks0 == IF flush THEN Append(st.chunks, st.chunk) ELSE st.chunks
        chunk0 == IF flush THEN <<>> ELSE st.chunk
        size0 == IF flush THEN 0 ELSE st.chunk_size
    IN  [chunks |-> chunks0,
         chunk |-> Append(chunk0, line),
         chunk_size |-> size0 + len(line)]

\* faulty variant: an empty buffer is not flushed
split_finish_SkipsEmpty(cs, c) == IF c = <<>> THEN cs ELSE Append(cs, c)

\* after the loop: the remaining buffer is the last chunk
split_finish(cs, c) == Append(cs, c)

SplitLine ==
    /\ pc = "split_read"
    /\ lines_read < Len(output_file)
    /\ LET st == split_step([chunks |-> chunks, chunk |-> chunk,
                             chunk_size |-> chunk_size],
                            read_text(output_file)[lines_read + 1])
       IN  /\ chunks' = st.chunks
           /\ chunk' = st.chunk
           /\ chunk_size' = st.chunk_size
    /\ lines_read' = lines_read + 1
    /\ UNCHANGED <<caller, pc, win32, fs, ignore_vars, output_file, chunk_files,
                   main_vars, tree_args, tree_vars>>

SplitEndOfInput ==
    /\ pc = "split_read"
    /\ lines_read = Len(output_file)
    /\ chunks' = split_finish(chunks, chunk)
    /\ pc' = "split_write"
    /\ UNCHANGED <<caller, win32, fs, ignore_vars, output_file, lines_read, chunk,
                   chunk_size, chunk_files, main_vars, tree_args, tree_vars>>

WriteChunk ==
    /\ pc = "split_write"
    /\ Len(chunk_files) < Len(chunks)
    /\ chunk_files' = Append(chunk_files, write_text(chunks[Len(chunk_files) + 1]))
    /\ UNCHANGED <<caller, pc, win32, fs, ignore_vars, output_file, lines_read,
                   chunks, chunk, chunk_size, main_vars, tree_args, tree_vars>>

SplitDone ==
    /\ pc = "split_write"
    /\ Len(chunk_files) = Len(chunks)
    /\ pc' = "done"
    /\ UNCHANGED <<caller, win32, fs, ignore_vars, output_file, split_vars, main_vars,
                   tree_args, tree_vars>>

(***************************************************************************)
(* The file system under the repository root.  Nodes lists every file and  *)
(* directory a run may find there, in the order the operating system lists *)
(* them; fs is the set of those present.  parent is 0 for an entry of the  *)
(* root.  size is what os.path.getsize gives and contents what read()      *)
(* gives, cut at its newlines (a text with k newlines has k + 1 parts).    *)
(***************************************************************************)
Part(text, pad) == [text |-> text, pad |-> pad]

File(name, parent, size, contents) ==
    [name |-> name, isdir |-> FALSE, parent |-> parent, size |-> size,
     contents |-> contents]

Dir(name, parent) ==
    [name |-> name, isdir |-> TRUE, parent |-> parent, size |-> 0, contents |-> <<>>]

Nodes ==
    << File(<<"r","u","n",".","l","o","g">>, 0, 1, <<Part(<<"x">>, 0)>>),
       File(<<"r","u","n",".","l","o","g","x">>, 0, 1, <<Part(<<"x">>, 0)>>),
       Dir(<<"d">>, 0),
       File(<<"b","i","g",".","b","i","n">>, 0, 2000000, <<Part(<<>>, 1999000)>>),
       File(<<"e","d","g","e",".","d","a","t">>, 0, 1000000, <<Part(<<>>, 1000000)>>),
       File(<<"h","u","g","e",".","m","d">>, 0, 4000011,
            <<Part(<<>>, 4000001), Part(<<"-","-","-","-">>, 0),
              Part(<<"t","a","i","l">>, 0)>>),
       File(<<"b",".","t","x","t">>, 3, 6, <<Part(<<"s","e","c","r","e","t">>, 0)>>),
       Dir(<<"e">>, 3),
       File(<<"c",".","p","y">>, 8, 7,
            <<Part(<<"i","m","p","o","r","t">>, 0), Part(<<>>, 0)>>) >>

NodeIds == 1..Len(Nodes)

FileSystems ==
    {S \in SUBSET NodeIds :
        /\ \A id \in S : Nodes[id].parent = 0 \/ Nodes[id].parent \in S
        /\ Cardinality({id \in S : ~Nodes[id].isdir}) <= MaxFiles}

\* a set of node ids as a sequence, in listing order
RECURSIVE Listed(_)
Listed(S) ==
    IF S = {} THEN <<>>
    ELSE LET first == CHOOSE id \in S : \A other \in S : id <= other
         IN  <<first>> \o Listed(S \ {first})

\* the entries of a directory (0 is the root), as iterdir and scandir list them
listdir(dir) == Listed({id \in fs : Nodes[id].parent = dir})

sep == IF win32 THEN "\\" ELSE "/"

\* os.path.relpath(file_path, repo_path)
RECURSIVE relpath(_)
relpath(id) ==
    IF Nodes[id].parent = 0 THEN Nodes[id].name
    ELSE relpath(Nodes[id].parent) \o <<sep>> \o Nodes[id].name

\* sys.argv[1]
repo_path == <<"r","e","p","o">>

\* str(path) of an entry found under Path(repo_path)
str_path(id) == repo_path \o <<sep>> \o relpath(id)

(***************************************************************************)
(* The tree renderer.  A line of the listing is kept as its pieces: the    *)
(* prefix (a sequence of the four-character pointers), the name and        *)
(* whether it is shown in gray.                                            *)
(***************************************************************************)
\* colorize
colorize(id, list) ==
    [name |-> Nodes[id].name, gray |-> should_ignore(str_path(id), list)]

\* everything the generator inner yields, in order
RECURSIVE inner(_, _, _, _)
inner(dir, prefix, lvl, list) ==
    IF lvl = 0 THEN <<>>
    ELSE
      LET all == listdir(dir)
          contents == IF limit_to_directories
                      THEN SelectSeq(all, LAMBDA id : Nodes[id].isdir)
                      ELSE all
          pointer(k) == IF k < Len(contents) THEN "tee" ELSE "last"
          entry(k) ==
              LET id == contents[k]
                  line == [prefix |-> Append(prefix, pointer(k)),
                           shown |-> colorize(id, list),
                           isdir |-> Nodes[id].isdir]
              IN  IF Nodes[id].isdir
                  THEN <<line>> \o
                       inner(id,
                             Append(prefix, IF pointer(k) = "tee" THEN "branch" ELSE "space"),
                             lvl - 1, list)
                  ELSE <<line>>
      IN  Concat([k \in 1..Len(contents) |-> entry(k)])

\* bool(line) of a yielded line
truthy(line) == 4 * Len(line.prefix) + Len(line.shown.name) > 0

\* Resuming the generator: the statement after the last yield runs (the
\* counter of the entry yielded last goes up), then it runs to its next
\* yield or to its end.  g is the record of yielded, exhausted, files and
\* directories; lines is what inner yields in all.
gen_next(g, lines) ==
    IF g.exhausted THEN g
    ELSE
      LET counted ==
              IF g.yielded = 0 THEN g
              ELSE IF lines[g.yielded].isdir
                   THEN [g EXCEPT !.directories = @ + 1]
                   ELSE [g EXCEPT !.files = @ + 1]
      IN  IF g.yielded < Len(lines)
          THEN [counted EXCEPT !.yielded = @ + 1]
          ELSE [counted EXCEPT !.exhausted = TRUE]

gen == [yielded |-> yielded, exhausted |-> exhausted, files |-> files,
        directories |-> directories]

tree_lines == inner(0, <<>>, level, ignore_list)

SetGen(g) ==
    /\ yielded' = g.yielded
    /\ exhausted' = g.exhausted
    /\ files' = g.files
    /\ directories' = g.directories

\* print(dir_path.name); iterator = inner(dir_path, level=level)
TreeStart ==
    /\ pc = "tree"
    /\ stdout' = <<[kind |-> "root", name |-> repo_path]>>
    /\ SetGen([yielded |-> 0, exhausted |-> FALSE, files |-> 0, directories |-> 0])
    /\ pc' = "tree_islice"
    /\ UNCHANGED <<caller, win32, fs, ignore_vars, output_file, split_vars, main_vars,
                   tree_args>>

\* faulty variant: one line too many is taken
tree_islice_more_OffByOne == ~exhausted /\ yielded <= length_limit

\* for line in islice(iterator, length_limit): whether islice asks the
\* generator for one more line
tree_islice_more == ~exhausted /\ yielded < length_limit

TreeLine ==
    /\ pc = "tree_islice"
    /\ tree_islice_more
    /\ LET g == gen_next(gen, tree_lines)
       IN  /\ SetGen(g)
           /\ stdout' = IF g.yielded > yielded
                        THEN Append(stdout, [kind |-> "entry", line |-> tree_lines[g.yielded]])
                        ELSE stdout
    /\ UNCHANGED <<caller, pc, win32, fs, ignore_vars, output_file, split_vars,
                   main_vars, tree_args>>

\* if next(iterator, None): print the notice
TreePeek ==
    /\ pc = "tree_islice"
    /\ ~tree_islice_more
    /\ LET g == gen_next(gen, tree_lines)
       IN  /\ SetGen(g)
           /\ stdout' = IF g.yielded > yielded /\ truthy(tree_lines[g.yielded])
                        THEN Append(stdout, [kind |-> "notice", limit |-> length_limit])
                        ELSE stdout
    /\ pc' = "tree_summary"
    /\ UNCHANGED <<caller, win32, fs, ignore_vars, output_file, split_vars, main_vars,
                   tree_args>>

\* the summary line
summary(d, f) ==
    [kind |-> "summary", directories |-> d, files |-> IF f # 0 THEN <<f>> ELSE <<>>]

TreeSummary ==
    /\ pc = "tree_summary"
    /\ stdout' = Append(stdout, summary(directories, files))
    /\ pc' = IF caller = "main" THEN "open" ELSE "done"
    /\ UNCHANGED <<caller, win32, fs, ignore_vars, output_file, split_vars, main_vars,
                   tree_args, yielded, exhausted, files, directories>>

(***************************************************************************)
(* The repository concatenator.                                            *)
(***************************************************************************)
TextLine(text, pad, kind, rec) ==
    [text |-> text, pad |-> pad, eol |-> "\n", kind |-> kind, rec |-> rec]

\* the three writes of one Record: delimiter line, path line, contents + "\n"
record_lines(id) ==
    <<TextLine(Dashes, 0, "delim", id), TextLine(relpath(id), 0, "path", id)>>
    \o [k \in 1..Len(Nodes[id].contents) |->
          TextLine(Nodes[id].contents[k].text, Nodes[id].contents[k].pad, "body", id)]

\* faulty variant: a file of exactly LARGE_FILE_SIZE bytes is skipped too
process_file_SizeAtLeast(id, x, list) ==
    IF x /\ id \in fs /\ Nodes[id].size >= LARGE_FILE_SIZE
    THEN [lines |-> <<>>, called |-> FALSE, result |-> FALSE]
    ELSE LET ign == should_ignore(relpath(id), list)
         IN  [lines |-> IF ~ign THEN record_lines(id) ELSE <<>>,
              called |-> TRUE, result |-> ign]

\* The body of the loop for one file: lines is what it writes to the sink,
\* called whether it called should_ignore, result what that call returned.
process_file(id, x, list) ==
    IF x /\ id \in fs /\ Nodes[id].size > LARGE_FILE_SIZE
    THEN [lines |-> <<>>, called |-> FALSE, result |-> FALSE]
    ELSE LET ign == should_ignore(relpath(id), list)
         IN  [lines |-> IF ~ign THEN record_lines(id) ELSE <<>>,
              called |-> TRUE, result |-> ign]

\* the files os.walk yields, top down: those of a directory, then those of
\* each of its subdirectories
RECURSIVE walk(_)
walk(dir) ==
    LET all == listdir(dir)
        here == SelectSeq(all, LAMBDA id : ~Nodes[id].isdir)
        dirs == SelectSeq(all, LAMBDA id : Nodes[id].isdir)
    IN  here \o Concat([k \in 1..Len(dirs) |-> walk(dirs[k])])

(***************************************************************************)
(* The driver.                                                             *)
(***************************************************************************)
\* the default preamble: one line of 460 characters, newline included
default_preamble == <<TextLine(<<"T","h","e"," ">>, 455, "preamble", 0)>>

\* pf.read() of the preamble file of the model, "intro\n", and the "\n" added
user_preamble ==
    <<TextLine(<<"i","n","t","r","o">>, 0, "preamble", 0), TextLine(<<>>, 0, "preamble", 0)>>

end_marker == <<[text |-> <<"-","-","E","N","D","-","-">>, pad |-> 0, eol |-> "",
                 kind |-> "end", rec |-> 0]>>

\* faulty variant: the file is not truncated
open_w_KeepsOldLines(old) == old

\* what open(output_file_path, 'w') leaves of the file's old lines
open_w(old) == <<>>

\* the ignore list is loaded; with -l the tree is printed
LoadIgnore ==
    /\ pc = "load"
    /\ ignore_list' = IF ignore_file.exists THEN get_ignore_list(ignore_file.lines) ELSE <<>>
    /\ IF caller = "main" /\ argv.l
       THEN /\ level' = ListingLevel
            /\ limit_to_directories' = FALSE
            /\ length_limit' = DefaultLengthLimit
            /\ pc' = "tree"
       ELSE /\ UNCHANGED tree_args
            /\ pc' = IF caller = "main" THEN "open" ELSE "match"
    /\ UNCHANGED <<caller, win32, fs, ignore_file, file_path, ignored, output_file,
                   split_vars, main_vars, tree_vars>>

\* the output file is opened for writing and the preamble written
MainOpen ==
    /\ pc = "open"
    /\ output_file' = open_w(output_file)
                      \o write_text(IF argv.p THEN user_preamble ELSE default_preamble)
    /\ sink' = "open"
    /\ events' = events \o <<"truncate", "preamble">>
    /\ todo' = walk(0)
    /\ pc' = "walk"
    /\ UNCHANGED <<caller, win32, fs, ignore_vars, split_vars, argv, tree_args, tree_vars>>

\* process_repository: one file of the walk
WalkFile ==
    /\ pc = "walk"
    /\ todo # <<>>
    /\ LET r == process_file(Head(todo), argv.x, ignore_list)
       IN  /\ output_file' = output_file \o write_text(r.lines)
           /\ events' = IF r.lines # <<>> THEN Append(events, "record") ELSE events
           /\ file_path' = IF r.called THEN relpath(Head(todo)) ELSE file_path
           /\ ignored' = IF r.called THEN r.result ELSE ignored
    /\ todo' = Tail(todo)
    /\ UNCHANGED <<caller, pc, win32, fs, ignore_file, ignore_list, split_vars, argv,
                   sink, tree_args, tree_vars>>

\* the walk is over: the with block closes the sink
MainClose ==
    /\ pc = "walk"
    /\ todo = <<>>
    /\ sink' = "closed"
    /\ events' = Append(events, "close")
    /\ pc' = "end"
    /\ UNCHANGED <<caller, win32, fs, ignore_vars, output_file, split_vars, argv, todo,
                   tree_args, tree_vars>>

\* the file is opened again for appending and the end marker written
MainEnd ==
    /\ pc = "end"
    /\ output_file' = output_file \o write_text(end_marker)
    /\ events' = Append(events, "end")
    /\ pc' = "finish"
    /\ UNCHANGED <<caller, win32, fs, ignore_vars, split_vars, argv, sink, todo,
                   tree_args, tree_vars>>

\* with -s the output file is split
MainFinish ==
    /\ pc = "finish"
    /\ IF argv.s
       THEN /\ events' = Append(events, "split")
            /\ pc' = "split_read"
       ELSE /\ UNCHANGED events
            /\ pc' = "done"
    /\ UNCHANGED <<caller, win32, fs, ignore_vars, output_file, split_vars, argv, sink,
                   todo, tree_args, tree_vars>>

\* the paths should_ignore is asked about in SpecIgnore
Paths ==
    { <<"r","u","n",".","l","o","g">>,
      <<"r","u","n",".","l","o","g","x">>,
      <<"a",".","t","x","t">>,
      <<"d","/","b",".","t","x","t">>,
      <<"d","\\","b",".","t","x","t">>,
      <<"x","/","b","u","i","l","d",".","p","y">>,
      <<"#","a","#">> }

\* a call of should_ignore
ShouldIgnoreCall ==
    /\ pc = "match"
    /\ \E path \in Paths :
          /\ file_path' = path
          /\ ignored' = should_ignore(path, ignore_list)
    /\ UNCHANGED <<caller, pc, win32, fs, ignore_file, ignore_list, output_file,
                   split_vars, main_vars, tree_args, tree_vars>>

(***************************************************************************)
(* Idle values of the parts an operation does not use.                     *)
(***************************************************************************)
IgnoreIdle ==
    /\ ignore_file = NoFile
    /\ ignore_list = <<>>
    /\ file_path = <<>>
    /\ ignored = FALSE

SplitIdle ==
    /\ lines_read = 0
    /\ chunks = <<>>
    /\ chunk = <<>>
    /\ chunk_size = 0
    /\ chunk_files = <<>>

MainIdle ==
    /\ sink = "unopened"
    /\ events = <<>>
    /\ todo = <<>>

NoFlags == [x |-> FALSE, s |-> FALSE, l |-> FALSE, p |-> FALSE]

TreeIdle ==
    /\ yielded = 0
    /\ exhausted = FALSE
    /\ files = 0
    /\ directories = 0
    /\ stdout = <<>>

TreeDefaults ==
    /\ level = -1
    /\ limit_to_directories = FALSE
    /\ length_limit = DefaultLengthLimit

RECURSIVE SeqsUpTo(_, _)
SeqsUpTo(S, k) ==
    IF k = 0 THEN {<<>>}
    ELSE LET shorter == SeqsUpTo(S, k - 1)
         IN  shorter \cup {Append(s, x) : s \in {t \in shorter : Len(t) = k - 1}, x \in S}

(***************************************************************************)
(* SpecIgnore: an ignore file is loaded and should_ignore is called.       *)
(***************************************************************************)
\* lines an ignore file may hold
IgnoreLines ==
    { <<"\n">>,
      <<" ","#","a"," ","\n">>,
      <<"*",".","l","o","g","\n">>,
      <<"d","/","\n">>,
      <<"b","u","i","l","d","\n">>,
      <<"?",".","t","x","t","\n">>,
      <<"[","!","a","]",".","t","x","t">>,
      <<"R","U","N",".","L","O","G","\n">> }

InitIgnore ==
    /\ caller = "ignore"
    /\ pc = "load"
    /\ win32 \in BOOLEAN
    /\ fs = {}
    /\ ignore_file \in {IgnoreFile(lines) : lines \in SeqsUpTo(IgnoreLines, MaxIgnoreLines)}
                      \cup {NoFile}
    /\ ignore_list = <<>>
    /\ file_path = <<>>
    /\ ignored = FALSE
    /\ output_file = <<>>
    /\ SplitIdle
    /\ argv = NoFlags
    /\ MainIdle
    /\ TreeDefaults
    /\ TreeIdle

NextIgnore == LoadIgnore \/ ShouldIgnoreCall

SpecIgnore == InitIgnore /\ [][NextIgnore]_vars

(***************************************************************************)
(* SpecSplit: split_file called on an arbitrary text file.                 *)
(***************************************************************************)
Line(text, pad) == TextLine(text, pad, "raw", 0)

SplitLines ==
    { Line(Dashes, 0),                       \* a delimiter line
      Line(<<"h","e","l","l","o">>, 0),      \* a short line
      Line(<<>>, 2500000),                   \* a line of 2,500,001 characters
      Line(<<>>, 4000000) }                  \* a line of 4,000,001 characters

\* a file on disk: every line ends with eol, the last one perhaps with nothing
OnDisk(lines, eol, endnl) ==
    [i \in 1..Len(lines) |->
        [lines[i] EXCEPT !.eol = IF i = Len(lines) /\ ~endnl THEN "" ELSE eol]]

InitSplit ==
    /\ caller = "split"
    /\ pc = "split_read"
    /\ win32 \in BOOLEAN
    /\ fs = {}
    /\ IgnoreIdle
    /\ \E lines \in SeqsUpTo(SplitLines, MaxLines), eol \in {"\n", "\r\n"},
          endnl \in BOOLEAN :
          output_file = OnDisk(lines, eol, endnl)
    /\ SplitIdle
    /\ argv = NoFlags
    /\ MainIdle
    /\ TreeDefaults
    /\ TreeIdle

NextSplit == SplitLine \/ SplitEndOfInput \/ WriteChunk \/ SplitDone

SpecSplit == InitSplit /\ [][NextSplit]_vars

(***************************************************************************)
(* SpecTree: tree called on a directory.                                   *)
(***************************************************************************)
Levels == {-1, 0, 1, 2, 3}

InitTree ==
    /\ caller = "tree"
    /\ pc = "tree"
    /\ win32 \in BOOLEAN
    /\ fs \in FileSystems
    /\ ignore_file = NoFile
    /\ ignore_list \in {<<>>, << <<"*",".","l","o","g">> >>}
    /\ file_path = <<>>
    /\ ignored = FALSE
    /\ output_file = <<>>
    /\ SplitIdle
    /\ argv = NoFlags
    /\ MainIdle
    /\ level \in Levels
    /\ limit_to_directories \in BOOLEAN
    /\ length_limit \in 0..MaxLimit
    /\ TreeIdle

NextTree == TreeStart \/ TreeLine \/ TreePeek \/ TreeSummary

SpecTree == InitTree /\ [][NextTree]_vars

(***************************************************************************)
(* Spec: a run of the command-line driver.                                 *)
(***************************************************************************)
\* the ignore file the driver finds, if any
MainIgnoreFiles ==
    { NoFile,
      IgnoreFile(<< <<"*",".","l","o","g","\n">> >>),
      IgnoreFile(<< <<"#"," ","s","e","c","r","e","t","s","\n">>, <<"\n">>,
                    <<"b",".","t","x","t","\n">> >>),
      IgnoreFile(<< <<"d","/","\n">> >>) }

\* what an earlier run left at output_file_path
stale_output == <<TextLine(<<"o","l","d">>, 0, "stale", 0)>>

Init ==
    /\ caller = "main"
    /\ pc = "load"
    /\ win32 \in BOOLEAN
    /\ fs \in FileSystems
    /\ ignore_file \in MainIgnoreFiles
    /\ ignore_list = <<>>
    /\ file_path = <<>>
    /\ ignored = FALSE
    /\ output_file = stale_output
    /\ SplitIdle
    /\ argv \in [x : BOOLEAN, s : BOOLEAN, l : BOOLEAN, p : BOOLEAN]
    /\ MainIdle
    /\ TreeDefaults
    /\ TreeIdle

Next ==
    \/ LoadIgnore
    \/ TreeStart
    \/ TreeLine
    \/ TreePeek
    \/ TreeSummary
    \/ MainOpen
    \/ WalkFile
    \/ MainClose
    \/ MainEnd
    \/ MainFinish
    \/ SplitLine
    \/ SplitEndOfInput
    \/ WriteChunk
    \/ SplitDone

Spec == Init /\ [][Next]_vars

(***************************************************************************)
(*                              The claims                                 *)
(***************************************************************************)
\* split_file has run to its end
SplitFinished == pc = "done" /\ (caller = "split" \/ argv.s)

\* process_repository has run to its end and the sink is closed
WalkFinished == caller = "main" /\ sink = "closed"

RunLog == <<"r","u","n",".","l","o","g">>
RunLogx == <<"r","u","n",".","l","o","g","x">>
StarLog == <<"*",".","l","o","g">>

\* the positions of the lines of the output file written for file id
LinesOf(id) == {i \in 1..Len(output_file) : output_file[i].rec = id}

\* the output file holds, from position i on, the Record of file id: the
\* delimiter line, the line of its relative path, and its contents
RecordAt(i, id) ==
    LET contents == Nodes[id].contents
        k == Len(contents)
    IN  /\ i + 1 + k <= Len(output_file)
        /\ output_file[i].text = Dashes /\ output_file[i].pad = 0
        /\ output_file[i + 1].text = relpath(id) /\ output_file[i + 1].pad = 0
        /\ \A j \in 1..k :
              /\ output_file[i + 1 + j].text = contents[j].text
              /\ output_file[i + 1 + j].pad = contents[j].pad
        /\ \A j \in 0..(k + 1) : output_file[i + j].eol = linesep

\* file id has exactly one Record in the output file
OneRecord(id) ==
    \E i \in 1..Len(output_file) :
        /\ RecordAt(i, id)
        /\ LinesOf(id) = i..(i + 1 + Len(Nodes[id].contents))

\* the size in bytes of an ASCII text file on disk
RECURSIVE size_on_disk(_)
size_on_disk(file) ==
    IF file = <<>> THEN 0
    ELSE Len(Head(file).text) + Head(file).pad
         + (CASE Head(file).eol = "" -> 0
              [] Head(file).eol = "\r\n" -> 2
              [] OTHER -> 1)
         + size_on_disk(Tail(file))

\* C1: every chunk file split_file writes is under SPLIT_SIZE bytes, and an
\* input of more than SPLIT_SIZE bytes that holds several delimiter lines
\* yields at least 2 chunk files.
C1_ChunksUnderSplitSize ==
    SplitFinished =>
        /\ \A i \in 1..Len(chunk_files) : size_on_disk(chunk_files[i]) < SPLIT_SIZE
        /\ ( /\ size_on_disk(output_file) > SPLIT_SIZE
             /\ Cardinality({i \in 1..Len(output_file) :
                               line_startswith(output_file[i], Dashes)}) >= 2 )
           => Len(chunk_files) >= 2

\* every line of the file ends with the platform's line separator (the last
\* line may end with nothing)
NativeLineEnds(file) == \A i \in 1..Len(file) : file[i].eol \in {"", linesep}

\* C2 as stated: for every input file, the chunk files concatenated in index
\* order are the input file.
C2_ConcatReproducesInput ==
    SplitFinished => Concat(chunk_files) = output_file

\* C2 amended: for every input file whose lines end with the platform's line
\* separator, the chunk files concatenated in index order are the input
\* file: no line is lost, duplicated or reordered.
C2_ConcatReproducesNativeInput ==
    (SplitFinished /\ NativeLineEnds(output_file))
        => Concat(chunk_files) = output_file

C2_Witness ==
    /\ SplitFinished
    /\ NativeLineEnds(output_file)
    /\ Len(chunk_files) >= 2
    /\ Concat(chunk_files) = output_file

\* C3: when the output file of the driver is split, every chunk after the
\* first starts with the delimiter line of a Record, and the lines of a
\* Record (delimiter line, path line, contents) are all in one chunk file.
C3_ChunksAlignWithRecords ==
    (SplitFinished /\ caller = "main") =>
        /\ \A c \in 2..Len(chunk_files) :
              chunk_files[c] # <<>> /\ chunk_files[c][1].kind = "delim"
        /\ \A id \in NodeIds :
              Cardinality({c \in 1..Len(chunk_files) :
                             \E k \in 1..Len(chunk_files[c]) :
                                chunk_files[c][k].rec = id}) <= 1

\* a file is included: its relative path is not ignored, and it is not the
\* case that exclude_large_files is set and it is larger than LARGE_FILE_SIZE
Included(id) ==
    /\ ~should_ignore(relpath(id), ignore_list)
    /\ ~(argv.x /\ Nodes[id].size > LARGE_FILE_SIZE)

\* C4: after the walk every included file has exactly one Record in the
\* output, keyed by its relative path and holding its contents, and every
\* other file has none.
C4_IncludedFilesAppearOnce ==
    WalkFinished =>
        \A id \in fs :
            ~Nodes[id].isdir =>
                IF Included(id) THEN OneRecord(id) ELSE LinesOf(id) = {}

C4_Witness ==
    /\ WalkFinished
    /\ argv.x
    /\ {4, 5} \subseteq fs
    /\ LinesOf(4) = {}
    /\ OneRecord(5)

\* should_ignore has been called and has returned
Called == caller = "ignore" /\ pc = "match" /\ file_path # <<>>

\* C5 as stated: every non-empty entry of the ignore list that is a
\* substring of the path makes should_ignore return True.
C5_SubstringIgnored ==
    Called =>
        \A k \in 1..Len(ignore_list) :
            (ignore_list[k] # <<>> /\ contains(file_path, ignore_list[k])) => ignored

\* C5 amended: every non-empty entry of the ignore list that does not start
\* with "#" and is a substring of the path makes should_ignore return True.
C5_SubstringPatternIgnored ==
    Called =>
        \A k \in 1..Len(ignore_list) :
            ( /\ ignore_list[k] # <<>>
              /\ Head(ignore_list[k]) # "#"
              /\ contains(file_path, ignore_list[k]) ) => ignored

C5_Witness ==
    /\ Called
    /\ file_path = <<"x","/","b","u","i","l","d",".","p","y">>
    /\ ignore_list = << <<"b","u","i","l","d">> >>
    /\ ignored

\* C6 as stated: with the single pattern *.log, should_ignore returns True
\* for run.log and for run.logx, and neither file gets a Record.
C6_LogxExcluded ==
    (caller = "main" /\ ignore_list = <<StarLog>>) =>
        /\ file_path \in {RunLog, RunLogx} => ignored
        /\ sink = "closed" => LinesOf(1) = {} /\ LinesOf(2) = {}

\* C6 amended: with the single pattern *.log, should_ignore returns True for
\* run.log and False for run.logx; run.log gets no Record and run.logx gets
\* one.
C6_LogExcludedLogxKept ==
    (caller = "main" /\ ignore_list = <<StarLog>>) =>
        /\ file_path = RunLog => ignored
        /\ file_path = RunLogx => ~ignored
        /\ sink = "closed" =>
              /\ LinesOf(1) = {}
              /\ 2 \in fs => OneRecord(2)

C6_Witness ==
    /\ WalkFinished
    /\ ignore_list = <<StarLog>>
    /\ {1, 2} \subseteq fs
    /\ LinesOf(1) = {}
    /\ OneRecord(2)

\* the lines of the output file between the preamble and the end marker are
\* whole Records: each starts with a delimiter line, then a path line, then
\* at least one line of contents
RecordsOnly(mid) ==
    /\ mid # <<>> => mid[1].kind = "delim"
    /\ \A i \in 1..Len(mid) :
          CASE mid[i].kind = "delim" ->
                 /\ i < Len(mid)
                 /\ mid[i + 1].kind = "path" /\ mid[i + 1].rec = mid[i].rec
            [] mid[i].kind = "path" ->
                 /\ i < Len(mid)
                 /\ mid[i + 1].kind = "body" /\ mid[i + 1].rec = mid[i].rec
            [] mid[i].kind = "body" ->
                 /\ i > 1
                 /\ mid[i - 1].kind \in {"path", "body"} /\ mid[i - 1].rec = mid[i].rec
            [] OTHER -> FALSE

\* C7: in a completed run the output file is truncated and the preamble
\* written, then the Records, then the sink is closed, then the end marker
\* is appended once, and only then is split_file called; the output file is
\* the preamble, a sequence of Records and the end marker, and with -s the
\* last chunk file ends with the end marker.
C7_RunOrder ==
    /\ caller = "main" =>
          /\ (\E i \in 1..Len(output_file) : output_file[i].kind = "end")
                => sink = "closed"
          /\ (pc \in {"split_read", "split_write"} \/ chunk_files # <<>>)
                => (output_file # <<>> /\ <<output_file[Len(output_file)]>> = end_marker)
          /\ sink = "unopened" => output_file = stale_output
    /\ (caller = "main" /\ pc = "done") =>
        LET preamble == write_text(IF argv.p THEN user_preamble ELSE default_preamble)
            p == Len(preamble)
            last == Len(output_file)
            records == Cardinality({i \in 1..last : output_file[i].kind = "delim"})
        IN  /\ events = <<"truncate", "preamble">>
                        \o [i \in 1..records |-> "record"]
                        \o <<"close", "end">>
                        \o (IF argv.s THEN <<"split">> ELSE <<>>)
            /\ last >= p + 1
            /\ SubSeq(output_file, 1, p) = preamble
            /\ RecordsOnly(SubSeq(output_file, p + 1, last - 1))
            /\ <<output_file[last]>> = end_marker
            /\ argv.s =>
                  /\ chunk_files # <<>>
                  /\ chunk_files[Len(chunk_files)] # <<>>
                  /\ <<chunk_files[Len(chunk_files)][Len(chunk_files[Len(chunk_files)])]>>
                        = end_marker

C7_Witness ==
    /\ caller = "main"
    /\ pc = "done"
    /\ argv.s
    /\ Len(chunk_files) >= 2
    /\ Cardinality({i \in 1..Len(output_file) : output_file[i].kind = "delim"}) >= 2

\* C8: split_file writes at least one chunk file, the one with index 0, for
\* every input, an empty one included.
C8_AtLeastOneChunk ==
    /\ pc = "split_write" => Len(chunks) >= 1
    /\ SplitFinished => Len(chunk_files) >= 1

C8_Witness ==
    /\ SplitFinished
    /\ output_file = <<>>
    /\ chunk_files = << <<>> >>

\* an entry of the ignore list that is blank or a comment
BlankOrComment(entry) == entry = <<>> \/ Head(entry) = "#"

\* C9: should_ignore returns what it returns for the list with the blank and
\* the "#" entries removed, and a list of only such entries ignores no path.
C9_BlankAndCommentEntriesInert ==
    Called =>
        /\ ignored = should_ignore(file_path,
                                   SelectSeq(ignore_list, LAMBDA e : ~BlankOrComment(e)))
        /\ (\A k \in 1..Len(ignore_list) : BlankOrComment(ignore_list[k])) => ~ignored

C9_Witness ==
    /\ Called
    /\ ignore_list = << <<>>, <<"#","a">> >>
    /\ file_path = <<"#","a","#">>
    /\ ~ignored

\* the number of entries of a sequence of listing lines that are directories
DirCount(lines) == Cardinality({i \in 1..Len(lines) : lines[i].isdir})

\* C10: tree prints the root name, then the first length_limit lines of the
\* traversal (all of them if there are fewer), then the truncation notice
\* naming the cap exactly when the traversal has more lines than
\* length_limit, then the summary line with the directory count and, if it
\* is not zero, the file count.
C10_TreeOutput ==
    (caller = "tree" /\ pc = "done") =>
        LET all == tree_lines
            k == IF Len(all) < length_limit THEN Len(all) ELSE length_limit
            printed == SubSeq(all, 1, k)
            d == DirCount(printed)
        IN  stdout = <<[kind |-> "root", name |-> repo_path]>>
                     \o [i \in 1..k |-> [kind |-> "entry", line |-> all[i]]]
                     \o (IF Len(all) > length_limit
                         THEN <<[kind |-> "notice", limit |-> length_limit]>>
                         ELSE <<>>)
                     \o <<[kind |-> "summary", directories |-> d,
                           files |-> IF k - d # 0 THEN <<k - d>> ELSE <<>>]>>

C10_Witness ==
    /\ caller = "tree"
    /\ pc = "done"
    /\ length_limit > 0
    /\ Len(tree_lines) > length_limit
    /\ \E i \in 1..Len(stdout) : stdout[i].kind = "notice"

====
